---- MODULE Spec2Model ----
(***************************************************************************)
(* Stumble Higher: the voting / quality-scoring / auto-moderation pipeline *)
(*                                                                         *)
(*   src/src/app/api/votes/route.ts   POST and DELETE handlers             *)
(*   src/src/app/page.tsx             SQL functions and the vote trigger   *)
(*   src/unnamed/part_009             schema (tables, UNIQUE, defaults)    *)
(*   src/src/app/api/resources/route.ts  admin PATCH / DELETE              *)
(*                                                                         *)
(* Decimal quantities (weights, scores, thresholds) are kept in tenths:    *)
(* 1.0 is 10, 5.0 is 50.  Reputation is an integer as in the schema.       *)
(*                                                                         *)
(* Every awaited database call of a route handler is one atomic step; a    *)
(* write to the votes table runs the AFTER ... FOR EACH ROW trigger inside *)
(* the same statement.  Row level security policies are not modelled: the  *)
(* handlers are taken to run with a role that may perform their writes.    *)
(***************************************************************************)
EXTENDS Integers, Sequences, FiniteSets, TLC

VARIABLES
  votes,             \* table votes: set of rows
  nextId,            \* next fresh votes.id
  users,             \* table users: reputation_score, total_upvotes, total_downvotes
  resources,         \* table resources: status, upvotes, downvotes, quality_score
  user_interactions, \* table user_interactions: set of rows
  user_preferences,  \* table user_preferences: set of rows
  weekly_rewards,    \* table weekly_rewards: set of rows
  reward_distributions, \* table reward_distributions: set of rows
  srf_in_aggregate,  \* what the server does with unnest() inside array_agg()
  config,            \* table system_config: key -> value (a key may be absent)
  variable_conflict, \* plpgsql.variable_conflict in force for the SQL functions
  pc,                \* position of each request handler
  req,               \* the request each handler is serving
  loc,               \* the handler's local variables
  outcome,           \* response of the handler's last finished request
  hist,              \* per (user, resource): the last two successful vote calls
  overlapped,        \* the request ran while another of the same user+resource did
  adminTouched,      \* resources whose row an admin request has written
  started,           \* number of requests begun
  adminCount         \* number of admin writes done

vars == <<votes, nextId, users, resources, user_interactions, user_preferences,
          weekly_rewards, reward_distributions, srf_in_aggregate, config,
          variable_conflict, pc, req, loc, outcome, hist, overlapped,
          adminTouched, started, adminCount>>

\* the part of the database the vote handlers neither read nor write
restOfDatabase ==
  <<user_preferences, weekly_rewards, reward_distributions, srf_in_aggregate>>

----------------------------------------------------------------------------
(* Bounds of the model *)

MaxRequests == 3
MaxVoteId == 2
MaxAdminActions == 1
MaxModeratedRequests == 2

Users == {"u1", "u2", "u3", "u4"}
\* the users who send vote requests in the model
Requesters == {"u1", "u2", "u3"}
Resources == {"r1"}
Procs == {"p1", "p2"}

\* resources.submitted_by
submitted_by == [r \in Resources |-> "u3"]

VoteTypes == {"up", "down"}
Statuses == {"pending", "approved", "rejected", "hidden"}
\* statuses a moderation PATCH sets
ModerationStatuses == Statuses
ConfigKeys == {"auto_approve_threshold", "auto_hide_threshold",
               "min_votes_for_auto_action"}

\* system_config contents the model starts from (thresholds in tenths)
Configs ==
  { [auto_approve_threshold |-> 10, auto_hide_threshold |-> -10,
     min_votes_for_auto_action |-> 1],
    [auto_approve_threshold |-> 20, auto_hide_threshold |-> -20,
     min_votes_for_auto_action |-> 2] }

ConflictModes == {"use_variable", "use_column", "error"}

NoVote == [id |-> 0, vote_type |-> "none"]
NoScore == [upvotes |-> 0, downvotes |-> 0, weighted_score |-> 0,
            voter_count |-> 0, should_auto_approve |-> "false",
            should_auto_hide |-> "false"]
NoReq == [kind |-> "none", user |-> "u1", resource |-> "r1", vote_type |-> "up"]
NoLoc == [status |-> "none", weight |-> 0, existing |-> NoVote,
          action |-> "none", score |-> NoScore, hadRow |-> FALSE,
          rep |-> 0]

----------------------------------------------------------------------------
(* Arithmetic helpers *)

Min(a, b) == IF a <= b THEN a ELSE b
Max(a, b) == IF a >= b THEN a ELSE b

\* ROUND(numeric) of a value given in tenths: half away from zero
RoundTenths(x) == IF x >= 0 THEN (x + 5) \div 10 ELSE -((-x + 5) \div 10)

RECURSIVE SumOver(_, _)
SumOver(S, f) ==
  IF S = {} THEN 0
  ELSE LET x == CHOOSE y \in S : TRUE IN f[x] + SumOver(S \ {x}, f)

----------------------------------------------------------------------------
(* SQL three-valued logic for the scorer's verdicts: "true", "false", "null" *)

\* value of a system_config key, and whether the key is present
HasKey(cfg, k) == k \in DOMAIN cfg

\* a >= cfg[k], NULL when the key is absent (SELECT ... INTO leaves NULL)
Ge3(a, cfg, k) ==
  IF ~HasKey(cfg, k) THEN "null" ELSE IF a >= cfg[k] THEN "true" ELSE "false"

\* a <= cfg[k], NULL when the key is absent
Le3(a, cfg, k) ==
  IF ~HasKey(cfg, k) THEN "null" ELSE IF a <= cfg[k] THEN "true" ELSE "false"

\* SQL AND
And3(x, y) ==
  IF x = "false" \/ y = "false" THEN "false"
  ELSE IF x = "true" /\ y = "true" THEN "true"
  ELSE "null"

----------------------------------------------------------------------------
(* Pure functions of the pipeline *)

\* route.ts: voteWeight = Math.min((reputationScore * 0.1) + 1, 5.0), in tenths
VoteWeight(reputationScore) == Min(reputationScore + 10, 50)

\* faulty variant: the 5.0 cap is missing
ScorerWeight_NoCap(reputation_score) == reputation_score + 10

\* calculate_quality_score: LEAST((u.reputation_score * 0.1 + 1), 5.0), in tenths
ScorerWeight(reputation_score) == Min(reputation_score + 10, 50)

\* faulty variant: the weight stored on the vote row is summed
ScorerContribution_StoredWeight(v, usr) ==
  IF v.vote_type = "up" THEN v.weight
  ELSE IF v.vote_type = "down" THEN -v.weight
  ELSE 0

\* calculate_quality_score: the CASE inside SUM, for one joined (vote, user) row
ScorerContribution(v, usr) ==
  IF v.vote_type = "up" THEN ScorerWeight(usr[v.user_id].reputation_score)
  ELSE IF v.vote_type = "down" THEN -ScorerWeight(usr[v.user_id].reputation_score)
  ELSE 0

\* faulty variant: strict comparison with the approve threshold
ShouldAutoApprove_Strict(calculated_score, total_voters, cfg) ==
  And3(IF Ge3(calculated_score - 1, cfg, "auto_approve_threshold") = "true"
       THEN "true" ELSE "false",
       Ge3(total_voters, cfg, "min_votes_for_auto_action"))

\* calculate_quality_score: the should_auto_approve column
ShouldAutoApprove(calculated_score, total_voters, cfg) ==
  And3(Ge3(calculated_score, cfg, "auto_approve_threshold"),
       Ge3(total_voters, cfg, "min_votes_for_auto_action"))

\* faulty variant: the minimum number of voters is not required for hiding
ShouldAutoHide_NoMinimum(calculated_score, total_voters, cfg) ==
  Le3(calculated_score, cfg, "auto_hide_threshold")

\* calculate_quality_score: the should_auto_hide column
ShouldAutoHide(calculated_score, total_voters, cfg) ==
  And3(Le3(calculated_score, cfg, "auto_hide_threshold"),
       Ge3(total_voters, cfg, "min_votes_for_auto_action"))

\* calculate_quality_score(resource_id) over tables vts (votes), usr (users)
\* and cfg (system_config)
calculate_quality_score(vts, usr, cfg, r) ==
  LET rows == {v \in vts : v.resource_id = r}
      up_count == Cardinality({v \in rows : v.vote_type = "up"})
      down_count == Cardinality({v \in rows : v.vote_type = "down"})
      total_voters == Cardinality({v.user_id : v \in rows})
      calculated_score ==
        SumOver(rows, [v \in rows |-> ScorerContribution(v, usr)])
  IN [upvotes |-> up_count,
      downvotes |-> down_count,
      weighted_score |-> calculated_score,
      voter_count |-> total_voters,
      should_auto_approve |->
        ShouldAutoApprove(calculated_score, total_voters, cfg),
      should_auto_hide |->
        ShouldAutoHide(calculated_score, total_voters, cfg)]

\* update_resource_scores: the status the resource row ends with
StatusAfterScores(resource_status, score_data) ==
  IF resource_status = "pending"
  THEN IF score_data.should_auto_approve = "true" THEN "approved"
       ELSE IF score_data.should_auto_hide = "true" THEN "hidden"
       ELSE resource_status
  ELSE resource_status

\* update_resource_scores(resource_id): the resources table afterwards
update_resource_scores(res, vts, usr, cfg, r) ==
  LET score_data == calculate_quality_score(vts, usr, cfg, r)
  IN [res EXCEPT ![r] =
        [status |-> StatusAfterScores(res[r].status, score_data),
         upvotes |-> score_data.upvotes,
         downvotes |-> score_data.downvotes,
         quality_score |-> score_data.weighted_score]]

\* update_user_reputation: the value SELECTed INTO reputation_score
\* (content, voting and engagement points are summed in tenths, then ROUNDed)
ReputationFormula(res, vts, inter, u) ==
  LET own == {r \in Resources : submitted_by[r] = u
                                /\ res[r].status \in {"approved", "pending"}}
      content_points ==
        SumOver(own, [r \in own |-> Min(res[r].quality_score * 5, 500)])
      voting_points ==
        10 * Min(Cardinality({v \in vts : v.user_id = u}), 100)
      engagement_points == Min(Cardinality({i \in inter : i.user_id = u}), 500)
  IN RoundTenths(content_points + voting_points + engagement_points)

\* update_user_reputation(target_user_id): the users table afterwards.
\* "SET reputation_score = COALESCE(reputation_score, 0)": the name on the
\* right is both the declared variable and the column; plpgsql.variable_conflict
\* decides which one is read (the third setting raises, handled by the caller).
update_user_reputation(usr, res, vts, inter, u, mode) ==
  IF mode = "use_variable"
  THEN [usr EXCEPT ![u].reputation_score = ReputationFormula(res, vts, inter, u)]
  ELSE usr

\* update_user_reputation raises "column reference is ambiguous"
TriggerRaises(mode) == mode = "error"

----------------------------------------------------------------------------
(* Tables after a statement on votes, trigger included *)

\* rows of votes for (resource_id, user_id)
VoteRows(vts, r, u) == {v \in vts : v.resource_id = r /\ v.user_id = u}

\* faulty variant: the trigger leaves the resource's scores alone
TriggerResources_Skips(res, vts, usr, cfg, r) == res

\* trigger_update_resource_scores: resources after the row change
TriggerResources(res, vts, usr, cfg, r) ==
  update_resource_scores(res, vts, usr, cfg, r)

\* trigger_update_resource_scores: users after the row change (the scores are
\* updated first, the voter's reputation second)
TriggerUsers(res, vts, usr, cfg, inter, mode, r, u) ==
  update_user_reputation(usr, TriggerResources(res, vts, usr, cfg, r),
                         vts, inter, u, mode)

\* faulty variant: no UNIQUE(resource_id, user_id) on the table
UniqueViolation_Never(vts, r, u) == FALSE

\* UNIQUE(resource_id, user_id): the insert is refused
UniqueViolation(vts, r, u) == VoteRows(vts, r, u) # {}

----------------------------------------------------------------------------
(* Initial state: empty votes table, one pending submission, schema defaults *)

Init ==
  /\ votes = {}
  /\ nextId = 1
  /\ users = [u \in Users |->
               [reputation_score |-> 0, total_upvotes |-> 0, total_downvotes |-> 0]]
  /\ resources = [r \in Resources |->
                   [status |-> "pending", upvotes |-> 0, downvotes |-> 0,
                    quality_score |-> 0]]
  /\ user_interactions = {}
  /\ user_preferences = {}
  /\ weekly_rewards = {}
  /\ reward_distributions = {}
  /\ srf_in_aggregate = "rejected"
  /\ config \in Configs
  /\ variable_conflict \in ConflictModes
  /\ pc = [p \in Procs |-> "idle"]
  /\ req = [p \in Procs |-> NoReq]
  /\ loc = [p \in Procs |-> NoLoc]
  /\ outcome = [p \in Procs |-> "none"]
  /\ hist = [u \in Users |-> [r \in Resources |-> <<>>]]
  /\ overlapped = [p \in Procs |-> FALSE]
  /\ adminTouched = {}
  /\ started = 0
  /\ adminCount = 0

----------------------------------------------------------------------------
(* Request bookkeeping *)

InFlight(p) == pc[p] \notin {"idle", "done"}

\* another handler is serving a request of the same user for the same resource
Rivals(p, u, r) ==
  {q \in Procs \ {p} : InFlight(q) /\ req[q].user = u /\ req[q].resource = r}

\* the last two successful calls for (u, r), newest last
Remember(h, e) == IF Len(h) < 2 THEN Append(h, e) ELSE <<h[2], e>>

HistEntry(p) ==
  [kind |-> req[p].kind, vote_type |-> req[p].vote_type,
   hadRow |-> loc[p].hadRow, clean |-> ~overlapped[p], rep |-> loc[p].rep]

\* the handler returns: response recorded, locals dropped
Finish(p, result, ok) ==
  /\ pc' = [pc EXCEPT ![p] = "done"]
  /\ outcome' = [outcome EXCEPT ![p] = result]
  /\ loc' = [loc EXCEPT ![p] = NoLoc]
  /\ req' = [req EXCEPT ![p] = NoReq]
  /\ hist' = IF ok
             THEN [hist EXCEPT ![req[p].user][req[p].resource] =
                     Remember(@, HistEntry(p))]
             ELSE hist

\* a request arrives: POST /api/votes (kind "post") or DELETE /api/votes
Begin(p, kind, u, r, t) ==
  /\ ~InFlight(p)
  /\ started' = started + 1
  /\ req' = [req EXCEPT ![p] = [kind |-> kind, user |-> u, resource |-> r,
                                vote_type |-> t]]
  /\ pc' = [pc EXCEPT ![p] = IF kind = "post" THEN "getResource" ELSE "deleteVote"]
  /\ loc' = [loc EXCEPT ![p] =
               [NoLoc EXCEPT !.hadRow = VoteRows(votes, r, u) # {},
                             !.rep = users[u].reputation_score]]
  /\ outcome' = [outcome EXCEPT ![p] = "none"]
  /\ overlapped' = [q \in Procs |->
                      IF q = p THEN Rivals(p, u, r) # {}
                      ELSE IF q \in Rivals(p, u, r) THEN TRUE
                      ELSE overlapped[q]]
  /\ UNCHANGED <<votes, nextId, users, resources, user_interactions, config,
                 variable_conflict, hist, adminTouched, adminCount>>
  /\ UNCHANGED restOfDatabase

----------------------------------------------------------------------------
(* POST /api/votes *)

\* ['approved', 'pending'].includes(resource.status)
Votable(status) == status \in {"approved", "pending"}

\* faulty variant: the own-submission check is missing
OwnSubmission_Never(r, u) == FALSE

\* resource.submitted_by === user.id
OwnSubmission(r, u) == submitted_by[r] = u

\* select id, status, submitted_by from resources; the two 400 responses
GetResource(p) ==
  /\ pc[p] = "getResource"
  /\ LET r == req[p].resource
         u == req[p].user
     IN IF ~Votable(resources[r].status)
        THEN Finish(p, "err_cannot_vote", FALSE)
        ELSE IF OwnSubmission(r, u)
        THEN Finish(p, "err_own_submission", FALSE)
        ELSE /\ pc' = [pc EXCEPT ![p] = "getReputation"]
             /\ loc' = [loc EXCEPT ![p].status = resources[r].status]
             /\ UNCHANGED <<outcome, hist, req>>
  /\ UNCHANGED <<votes, nextId, users, resources, user_interactions, config,
                 variable_conflict, overlapped, adminTouched, started,
                 adminCount>>
  /\ UNCHANGED restOfDatabase

\* select reputation_score from users; voteWeight
GetReputation(p) ==
  /\ pc[p] = "getReputation"
  /\ pc' = [pc EXCEPT ![p] = "getVote"]
  /\ loc' = [loc EXCEPT ![p].weight =
               VoteWeight(users[req[p].user].reputation_score)]
  /\ UNCHANGED <<votes, nextId, users, resources, user_interactions, config,
                 variable_conflict, req, outcome, hist, overlapped,
                 adminTouched, started, adminCount>>
  /\ UNCHANGED restOfDatabase

\* select id, vote_type from votes ... .single(): a row only when exactly one
ExistingVote(vts, r, u) ==
  IF Cardinality(VoteRows(vts, r, u)) = 1
  THEN LET v == CHOOSE w \in VoteRows(vts, r, u) : TRUE
       IN [id |-> v.id, vote_type |-> v.vote_type]
  ELSE NoVote

GetVote(p) ==
  /\ pc[p] = "getVote"
  /\ pc' = [pc EXCEPT ![p] = "writeVote"]
  /\ loc' = [loc EXCEPT ![p].existing =
               ExistingVote(votes, req[p].resource, req[p].user)]
  /\ UNCHANGED <<votes, nextId, users, resources, user_interactions, config,
                 variable_conflict, req, outcome, hist, overlapped,
                 adminTouched, started, adminCount>>
  /\ UNCHANGED restOfDatabase

\* the statement on votes went through: tables after it and its trigger
CommitVotes(p, newVotes, action) ==
  LET r == req[p].resource
      u == req[p].user
  IN /\ votes' = newVotes
     /\ resources' = TriggerResources(resources, newVotes, users, config, r)
     /\ users' = TriggerUsers(resources, newVotes, users, config,
                              user_interactions, variable_conflict, r, u)
     /\ pc' = [pc EXCEPT ![p] = "rpc"]
     /\ loc' = [loc EXCEPT ![p].action = action]
     /\ UNCHANGED <<outcome, hist, req>>

\* faulty variant: the delete matches no row
DeleteById_Keeps(vts, id) == vts

\* votes after delete().eq('id', id)
DeleteById(vts, id) == {v \in vts : v.id # id}

\* existingVote.vote_type === voteData.vote_type: delete().eq('id', ...)
RemoveSameVote(p) ==
  /\ pc[p] = "writeVote"
  /\ loc[p].existing # NoVote
  /\ loc[p].existing.vote_type = req[p].vote_type
  /\ LET hit == {v \in votes : v.id = loc[p].existing.id}
     IN IF hit = {}
        THEN \* no row deleted, no error: voteResult.action = 'removed'
             /\ pc' = [pc EXCEPT ![p] = "rpc"]
             /\ loc' = [loc EXCEPT ![p].action = "removed"]
             /\ UNCHANGED <<votes, users, resources, outcome, hist, req>>
        ELSE IF TriggerRaises(variable_conflict)
        THEN /\ Finish(p, "err_remove_failed", FALSE)
             /\ UNCHANGED <<votes, users, resources>>
        ELSE CommitVotes(p, DeleteById(votes, loc[p].existing.id), "removed")
  /\ UNCHANGED <<nextId, user_interactions, config, variable_conflict,
                 overlapped, adminTouched, started, adminCount>>
  /\ UNCHANGED restOfDatabase

\* faulty variant: the update leaves the weight of the first cast
UpdatedRow_StaleWeight(v, t, w) == [v EXCEPT !.vote_type = t]

\* the row an update of vote_type and weight leaves
UpdatedRow(v, t, w) == [v EXCEPT !.vote_type = t, !.weight = w]

\* opposite type: update({vote_type, weight}).eq('id', ...).select().single()
UpdateVote(p) ==
  /\ pc[p] = "writeVote"
  /\ loc[p].existing # NoVote
  /\ loc[p].existing.vote_type # req[p].vote_type
  /\ LET hit == {v \in votes : v.id = loc[p].existing.id}
     IN IF hit = {} \/ TriggerRaises(variable_conflict)
        THEN \* .single() on no row, or the trigger raised: updateError
             /\ Finish(p, "err_update_failed", FALSE)
             /\ UNCHANGED <<votes, users, resources>>
        ELSE CommitVotes(p,
               (votes \ hit) \cup
                 {UpdatedRow(v, req[p].vote_type, loc[p].weight) : v \in hit},
               "updated")
  /\ UNCHANGED <<nextId, user_interactions, config, variable_conflict,
                 overlapped, adminTouched, started, adminCount>>
  /\ UNCHANGED restOfDatabase

\* no existing vote: insert({resource_id, user_id, vote_type, weight})
InsertVote(p) ==
  /\ pc[p] = "writeVote"
  /\ loc[p].existing = NoVote
  /\ nextId <= MaxVoteId
  /\ LET r == req[p].resource
         u == req[p].user
         row == [id |-> nextId, resource_id |-> r, user_id |-> u,
                 vote_type |-> req[p].vote_type, weight |-> loc[p].weight]
     IN IF UniqueViolation(votes, r, u)
        THEN \* insertError: 'Failed to create vote'
             /\ Finish(p, "err_create_conflict", FALSE)
             /\ UNCHANGED <<votes, nextId, users, resources>>
        ELSE IF TriggerRaises(variable_conflict)
        THEN /\ Finish(p, "err_create_failed", FALSE)
             /\ UNCHANGED <<votes, nextId, users, resources>>
        ELSE /\ CommitVotes(p, votes \cup {row}, "created")
             /\ nextId' = nextId + 1
  /\ UNCHANGED <<user_interactions, config, variable_conflict,
                 overlapped, adminTouched, started, adminCount>>
  /\ UNCHANGED restOfDatabase

\* rpc('calculate_quality_score')
Rpc(p) ==
  /\ pc[p] = "rpc"
  /\ pc' = [pc EXCEPT ![p] = "updateScores"]
  /\ loc' = [loc EXCEPT ![p].score =
               calculate_quality_score(votes, users, config, req[p].resource)]
  /\ UNCHANGED <<votes, nextId, users, resources, user_interactions, config,
                 variable_conflict, req, outcome, hist, overlapped,
                 adminTouched, started, adminCount>>
  /\ UNCHANGED restOfDatabase

\* the status the handler is about to write, "none" when it writes none:
\* resource.status is the value read by GetResource
RouteVerdict(status, scoreResult) ==
  IF status = "pending"
  THEN IF scoreResult.should_auto_approve = "true" THEN "approved"
       ELSE IF scoreResult.should_auto_hide = "true" THEN "hidden"
       ELSE "none"
  ELSE "none"

\* update resources set upvotes, downvotes, quality_score
UpdateScores(p) ==
  /\ pc[p] = "updateScores"
  /\ resources' = [resources EXCEPT
                     ![req[p].resource].upvotes = loc[p].score.upvotes,
                     ![req[p].resource].downvotes = loc[p].score.downvotes,
                     ![req[p].resource].quality_score = loc[p].score.weighted_score]
  /\ pc' = [pc EXCEPT ![p] =
              IF RouteVerdict(loc[p].status, loc[p].score) = "none"
              THEN "updateCounts" ELSE "updateStatus"]
  /\ UNCHANGED <<votes, nextId, users, user_interactions, config,
                 variable_conflict, req, loc, outcome, hist, overlapped,
                 adminTouched, started, adminCount>>
  /\ UNCHANGED restOfDatabase

\* update resources set status = 'approved' | 'hidden'
UpdateStatus(p) ==
  /\ pc[p] = "updateStatus"
  /\ resources' = [resources EXCEPT ![req[p].resource].status =
                     RouteVerdict(loc[p].status, loc[p].score)]
  /\ pc' = [pc EXCEPT ![p] = "updateCounts"]
  /\ UNCHANGED <<votes, nextId, users, user_interactions, config,
                 variable_conflict, req, loc, outcome, hist, overlapped,
                 adminTouched, started, adminCount>>
  /\ UNCHANGED restOfDatabase

\* total_upvotes / total_downvotes + 1 after a 'created'; the response
UpdateCounts(p) ==
  /\ pc[p] = "updateCounts"
  /\ users' = IF loc[p].action = "created"
              THEN IF req[p].vote_type = "up"
                   THEN [users EXCEPT ![req[p].user].total_upvotes = @ + 1]
                   ELSE [users EXCEPT ![req[p].user].total_downvotes = @ + 1]
              ELSE users
  /\ Finish(p, loc[p].action, TRUE)
  /\ UNCHANGED <<votes, nextId, resources, user_interactions, config,
                 variable_conflict, overlapped, adminTouched, started,
                 adminCount>>
  /\ UNCHANGED restOfDatabase

----------------------------------------------------------------------------
(* DELETE /api/votes *)

\* delete().eq('resource_id').eq('user_id').select().single()
DeleteVote(p) ==
  /\ pc[p] = "deleteVote"
  /\ LET r == req[p].resource
         u == req[p].user
         hit == VoteRows(votes, r, u)
     IN IF hit = {}
        THEN /\ Finish(p, "err_no_vote", FALSE)
             /\ UNCHANGED <<votes, users, resources>>
        ELSE IF TriggerRaises(variable_conflict)
        THEN /\ Finish(p, "err_delete_failed", FALSE)
             /\ UNCHANGED <<votes, users, resources>>
        ELSE /\ votes' = votes \ hit
             /\ resources' = TriggerResources(resources, votes \ hit, users,
                                              config, r)
             /\ users' = TriggerUsers(resources, votes \ hit, users, config,
                                      user_interactions, variable_conflict, r, u)
             /\ pc' = [pc EXCEPT ![p] = "deleteCounts"]
             /\ loc' = [loc EXCEPT ![p].existing =
                          LET v == CHOOSE w \in hit : TRUE
                          IN [id |-> v.id, vote_type |-> v.vote_type]]
             /\ UNCHANGED <<outcome, hist, req>>
  /\ UNCHANGED <<nextId, user_interactions, config, variable_conflict,
                 overlapped, adminTouched, started, adminCount>>
  /\ UNCHANGED restOfDatabase

\* GREATEST(total_upvotes - 1, 0) or GREATEST(total_downvotes - 1, 0)
DeleteCounts(p) ==
  /\ pc[p] = "deleteCounts"
  /\ users' = IF loc[p].existing.vote_type = "up"
              THEN [users EXCEPT ![req[p].user].total_upvotes = Max(@ - 1, 0)]
              ELSE [users EXCEPT ![req[p].user].total_downvotes = Max(@ - 1, 0)]
  /\ Finish(p, "deleted", TRUE)
  /\ UNCHANGED <<votes, nextId, resources, user_interactions, config,
                 variable_conflict, overlapped, adminTouched, started,
                 adminCount>>
  /\ UNCHANGED restOfDatabase

----------------------------------------------------------------------------
(* Admin moderation: PATCH and DELETE /api/resources *)

\* PATCH /api/resources?id=r with body {status: s}
AdminPatch(r, s) ==
  /\ adminCount' = adminCount + 1
  /\ resources' = [resources EXCEPT ![r].status = s]
  /\ adminTouched' = adminTouched \cup {r}
  /\ UNCHANGED <<votes, nextId, users, user_interactions, config,
                 variable_conflict, pc, req, loc, outcome, hist, overlapped,
                 started>>
  /\ UNCHANGED restOfDatabase

\* DELETE /api/resources?id=r: soft delete
AdminDelete(r) ==
  /\ adminCount' = adminCount + 1
  /\ resources' = [resources EXCEPT ![r].status = "hidden"]
  /\ adminTouched' = adminTouched \cup {r}
  /\ UNCHANGED <<votes, nextId, users, user_interactions, config,
                 variable_conflict, pc, req, loc, outcome, hist, overlapped,
                 started>>
  /\ UNCHANGED restOfDatabase

----------------------------------------------------------------------------

\* a vote request arrives
Arrive(p) ==
  \/ \E u \in Requesters, r \in Resources, t \in VoteTypes :
       Begin(p, "post", u, r, t)
  \/ \E u \in Requesters, r \in Resources : Begin(p, "delete", u, r, "none")

\* one step of a vote request handler
Handle(p) ==
  \/ GetResource(p)
  \/ GetReputation(p)
  \/ GetVote(p)
  \/ RemoveSameVote(p)
  \/ UpdateVote(p)
  \/ InsertVote(p)
  \/ Rpc(p)
  \/ UpdateScores(p)
  \/ UpdateStatus(p)
  \/ UpdateCounts(p)
  \/ DeleteVote(p)
  \/ DeleteCounts(p)

\* one admin moderation request
Moderate ==
  \/ \E r \in Resources, s \in ModerationStatuses : AdminPatch(r, s)
  \/ \E r \in Resources : AdminDelete(r)

\* vote traffic alone
Next ==
  \/ \E p \in Procs : started < MaxRequests /\ Arrive(p)
  \/ \E p \in Procs : Handle(p)

Spec == Init /\ [][Next]_vars

\* vote traffic interleaved with admin moderation
NextModerated ==
  \/ \E p \in Procs : started < MaxModeratedRequests /\ Arrive(p)
  \/ \E p \in Procs : Handle(p)
  \/ adminCount < MaxAdminActions /\ Moderate

SpecModerated == Init /\ [][NextModerated]_vars

----------------------------------------------------------------------------
(* The Quality Scorer on its own: GET /api/votes?resource_id=... *)

MaxSummaries == 1

\* users with a vote in the scorer's input tables, and their vote ids
ScorerVoters == {"u1", "u2", "u4"}
ScorerVoteId == [u \in ScorerVoters |->
                   IF u = "u1" THEN 1 ELSE IF u = "u2" THEN 2 ELSE 3]

\* reputations the scorer's inputs are drawn from
RepSeeds == {-20, 0, 20, 40, 50}

\* system_config contents the scorer's inputs are drawn from (tenths)
ScorerConfigs ==
  {[auto_approve_threshold |-> a, auto_hide_threshold |-> h,
    min_votes_for_auto_action |-> m] : a \in {90, 100}, h \in {-50, -20},
                                       m \in {2, 3}}

\* the votes table in which voter u holds the vote cast[u] on resource r
VotesOf(cast, rep, r) ==
  {[id |-> ScorerVoteId[u], resource_id |-> r, user_id |-> u,
    vote_type |-> cast[u], weight |-> VoteWeight(rep[u])] :
      u \in {w \in ScorerVoters : cast[w] # "none"}}

\* tables holding the drawn votes and reputations, system_config drawn from cfgs
ScorerInit(cfgs) ==
  \E cast \in [ScorerVoters -> {"none", "up", "down"}],
     rep \in [ScorerVoters -> RepSeeds] :
    /\ votes = VotesOf(cast, rep, "r1")
    /\ nextId = Cardinality(ScorerVoters) + 1
    /\ users = [u \in Users |->
                 [reputation_score |-> IF u \in ScorerVoters THEN rep[u] ELSE 0,
                  total_upvotes |->
                    IF u \in ScorerVoters /\ cast[u] = "up" THEN 1 ELSE 0,
                  total_downvotes |->
                    IF u \in ScorerVoters /\ cast[u] = "down" THEN 1 ELSE 0]]
    /\ config \in cfgs
    /\ resources =
         update_resource_scores(
           [r \in Resources |-> [status |-> "pending", upvotes |-> 0,
                                 downvotes |-> 0, quality_score |-> 0]],
           votes, users, config, "r1")
    /\ user_interactions = {}
    /\ user_preferences = {}
    /\ weekly_rewards = {}
    /\ reward_distributions = {}
    /\ srf_in_aggregate = "rejected"
    /\ variable_conflict = "use_variable"
    /\ pc = [p \in Procs |-> "idle"]
    /\ req = [p \in Procs |-> NoReq]
    /\ loc = [p \in Procs |-> NoLoc]
    /\ outcome = [p \in Procs |-> "none"]
    /\ hist = [u \in Users |-> [r \in Resources |-> <<>>]]
    /\ overlapped = [p \in Procs |-> FALSE]
    /\ adminTouched = {}
    /\ started = 0
    /\ adminCount = 0

InitScorer == ScorerInit(ScorerConfigs)

\* GET /api/votes?resource_id=r: rpc('calculate_quality_score') and the
\* summary returned
GetSummary(p, r) ==
  /\ ~InFlight(p)
  /\ started < MaxSummaries
  /\ started' = started + 1
  /\ req' = [req EXCEPT ![p] = [NoReq EXCEPT !.kind = "summary", !.resource = r]]
  /\ loc' = [loc EXCEPT ![p].score =
               calculate_quality_score(votes, users, config, r)]
  /\ outcome' = [outcome EXCEPT ![p] = "summary"]
  /\ pc' = [pc EXCEPT ![p] = "done"]
  /\ UNCHANGED <<votes, nextId, users, resources, user_interactions, config,
                 variable_conflict, hist, overlapped, adminTouched, adminCount>>
  /\ UNCHANGED restOfDatabase

NextScorer == \E p \in Procs, r \in Resources : GetSummary(p, r)

SpecScorer == InitScorer /\ [][NextScorer]_vars

\* system_config with at least one of the scorer's keys deleted
PartialConfigs ==
  {[k \in K |-> f[k]] : f \in ScorerConfigs,
                        K \in (SUBSET ConfigKeys) \ {ConfigKeys}}

InitPartialConfig == ScorerInit(PartialConfigs)

\* the Quality Scorer over a system_config that lacks a key
SpecPartialConfig == InitPartialConfig /\ [][NextScorer]_vars

----------------------------------------------------------------------------
(* Properties of the vote handlers *)

\* no request of user u for resource r is being served
Quiet(u, r) ==
  \A p \in Procs : InFlight(p) => ~(req[p].user = u /\ req[p].resource = r)

\* the last two successful calls of u for r were POSTs that ran one after the
\* other, each without a concurrent request of the same user for the resource
TwoCleanPosts(u, r) ==
  /\ Quiet(u, r)
  /\ Len(hist[u][r]) = 2
  /\ hist[u][r][1].kind = "post" /\ hist[u][r][2].kind = "post"
  /\ hist[u][r][1].clean /\ hist[u][r][2].clean

\* C1 (vote toggle): when user u had no vote row for resource r and then made
\* two successive successful POSTs with the same vote_type, no vote row for
\* (u, r) is left.
C1_ToggleLeavesNoVote ==
  \A u \in Users, r \in Resources :
    ( /\ TwoCleanPosts(u, r)
      /\ ~hist[u][r][1].hadRow
      /\ hist[u][r][1].vote_type = hist[u][r][2].vote_type )
    => VoteRows(votes, r, u) = {}

\* C1 witness: a user has cast the same type twice from no vote, and both
\* handlers have returned
C1_Witness ==
  \E u \in Users, r \in Resources :
    /\ TwoCleanPosts(u, r)
    /\ ~hist[u][r][1].hadRow
    /\ hist[u][r][1].vote_type = "up" /\ hist[u][r][2].vote_type = "up"
    /\ \E p \in Procs : outcome[p] = "removed"

\* C2 (vote switch): after a successful 'up' POST followed by a successful
\* 'down' POST of the same user for the same resource there is exactly one
\* vote row for the pair, it is a down vote, and its weight is
\* min(reputation * 0.1 + 1, 5.0) for the reputation the user had at the
\* second call.
C2_SwitchLeavesOneDownVote ==
  \A u \in Users, r \in Resources :
    ( /\ TwoCleanPosts(u, r)
      /\ hist[u][r][1].vote_type = "up"
      /\ hist[u][r][2].vote_type = "down" )
    => /\ Cardinality(VoteRows(votes, r, u)) = 1
       /\ \A v \in VoteRows(votes, r, u) :
            /\ v.vote_type = "down"
            /\ v.weight = (IF hist[u][r][2].rep + 10 <= 50
                           THEN hist[u][r][2].rep + 10 ELSE 50)

\* C2 witness: an up vote was switched to down after the voter's reputation
\* had changed, so the second call computed another weight than the first
C2_Witness ==
  \E u \in Users, r \in Resources :
    /\ TwoCleanPosts(u, r)
    /\ hist[u][r][1].vote_type = "up"
    /\ hist[u][r][2].vote_type = "down"
    /\ hist[u][r][1].rep # hist[u][r][2].rep
    /\ \E p \in Procs : outcome[p] = "updated"

\* C3 (one vote per pair): in every reachable state the votes table holds at
\* most one row for each (resource_id, user_id).
C3_OneVotePerUserAndResource ==
  \A u \in Users, r \in Resources : Cardinality(VoteRows(votes, r, u)) <= 1

\* C3 witness: two requests of one user for one resource both read "no
\* existing vote"; one has inserted its row and the other is about to insert
C3_Witness ==
  \E p, q \in Procs :
    /\ p # q
    /\ pc[q] = "writeVote" /\ loc[q].existing = NoVote
    /\ pc[p] \in {"rpc", "updateScores", "updateStatus", "updateCounts"}
    /\ loc[p].action = "created"
    /\ req[p].user = req[q].user /\ req[p].resource = req[q].resource
    /\ VoteRows(votes, req[q].resource, req[q].user) # {}

\* C4 (conflict handled as update): an insert refused by the uniqueness
\* constraint never ends the request in an error response.
C4_ConflictNeverAnError ==
  \A p \in Procs : outcome[p] # "err_create_conflict"

\* responses that report an error
ErrorOutcomes ==
  {"err_cannot_vote", "err_own_submission", "err_remove_failed",
   "err_update_failed", "err_create_conflict", "err_create_failed",
   "err_no_vote", "err_delete_failed"}

\* C5 (validation): a POST whose resource was submitted by the requesting
\* user, or whose resource is neither approved nor pending, ends in an error
\* response and leaves the votes, resources and users tables as they were.
C5_InvalidVoteRejected ==
  [][\A p \in Procs :
       ( /\ pc[p] = "getResource"
         /\ pc'[p] # "getResource"
         /\ \/ submitted_by[req[p].resource] = req[p].user
            \/ resources[req[p].resource].status \notin {"approved", "pending"} )
       => /\ pc'[p] = "done"
          /\ outcome'[p] \in ErrorOutcomes
          /\ votes' = votes /\ resources' = resources /\ users' = users]_vars

\* C5 witness: one request was refused for an own submission and one for the
\* resource's status
C5_Witness ==
  \E p, q \in Procs :
    outcome[p] = "err_own_submission" /\ outcome[q] = "err_cannot_vote"

----------------------------------------------------------------------------
(* Properties of the Quality Scorer *)

\* what one user's vote on r adds to the weighted score, as the contract
\* states it: +min(0.1 R + 1, 5.0) for up, minus the same for down (tenths)
ContractContribution(u, r) ==
  LET R == users[u].reputation_score
      w == IF R + 10 <= 50 THEN R + 10 ELSE 50
  IN IF \E v \in VoteRows(votes, r, u) : v.vote_type = "up" THEN w
     ELSE IF \E v \in VoteRows(votes, r, u) : v.vote_type = "down" THEN -w
     ELSE 0

ContractScore(r) ==
  SumOver(Users, [u \in Users |-> ContractContribution(u, r)])

Abs(x) == IF x >= 0 THEN x ELSE -x

\* the scorer's example: three up votes from reputations 0, 20 and 50
ExampleTables ==
  /\ \A u \in ScorerVoters :
       \E v \in VoteRows(votes, "r1", u) : v.vote_type = "up"
  /\ users["u1"].reputation_score = 0
  /\ users["u2"].reputation_score = 20
  /\ users["u4"].reputation_score = 50

\* C6 (weighted score): the scorer's weighted_score is the sum over the
\* resource's votes of +min(0.1 R + 1, 5.0) for up and -min(0.1 R + 1, 5.0)
\* for down, R the voter's reputation; a single vote of a voter with R >= 0
\* contributes at most 5.0 in magnitude; three up votes from reputations
\* 0, 20 and 50 give 9.0 with voter_count 3.
C6_WeightedScore ==
  \A p \in Procs :
    outcome[p] = "summary" =>
      LET r == req[p].resource
          voters == {u \in Users : VoteRows(votes, r, u) # {}}
      IN /\ loc[p].score.weighted_score = ContractScore(r)
         /\ \A u \in voters :
              (voters = {u} /\ users[u].reputation_score >= 0)
                => Abs(loc[p].score.weighted_score) <= 50
         /\ ExampleTables =>
              (loc[p].score.weighted_score = 90 /\ loc[p].score.voter_count = 3)

\* C6 witness: the scorer has run on the example tables, where one voter's
\* weight is capped at 5.0
C6_Witness ==
  \E p \in Procs : outcome[p] = "summary" /\ ExampleTables

\* C7 (auto-approve verdict): should_auto_approve is true exactly when
\* weighted_score >= auto_approve_threshold and
\* voter_count >= min_votes_for_auto_action.
C7_AutoApproveVerdict ==
  \A p \in Procs :
    outcome[p] = "summary" =>
      ( loc[p].score.should_auto_approve = "true"
        <=> ( /\ loc[p].score.weighted_score >= config.auto_approve_threshold
              /\ loc[p].score.voter_count >= config.min_votes_for_auto_action ) )

\* C7 witness: a verdict to approve at a score equal to the threshold
C7_Witness ==
  \E p \in Procs :
    /\ outcome[p] = "summary"
    /\ loc[p].score.should_auto_approve = "true"
    /\ loc[p].score.weighted_score = config.auto_approve_threshold

\* C8 (auto-hide verdict): should_auto_hide is true exactly when
\* weighted_score <= auto_hide_threshold and
\* voter_count >= min_votes_for_auto_action.
C8_AutoHideVerdict ==
  \A p \in Procs :
    outcome[p] = "summary" =>
      ( loc[p].score.should_auto_hide = "true"
        <=> ( /\ loc[p].score.weighted_score <= config.auto_hide_threshold
              /\ loc[p].score.voter_count >= config.min_votes_for_auto_action ) )

\* C8 witness: a verdict to hide at a score equal to the threshold
C8_Witness ==
  \E p \in Procs :
    /\ outcome[p] = "summary"
    /\ loc[p].score.should_auto_hide = "true"
    /\ loc[p].score.weighted_score = config.auto_hide_threshold

----------------------------------------------------------------------------
(* Properties of the resource status *)

\* a step of a vote request handler (an admin request leaves pc alone)
VotePathStep == pc' # pc

\* C9 (automatic transitions only from pending): a step of the vote path
\* (the vote trigger or the route's follow-up writes) changes a resource's
\* status only if that status is pending at the moment of the write, and only
\* to approved or hidden.
C9_VotePathMovesOnlyPending ==
  [][VotePathStep =>
       \A r \in Resources :
         resources'[r].status # resources[r].status
           => /\ resources[r].status = "pending"
              /\ resources'[r].status \in {"approved", "hidden"}]_vars

\* C10 (auto-approve monotonicity): once a resource is approved, no vote
\* cast, switch or removal changes its status, as long as no admin request
\* has written the resource.
C10_ApprovedStaysApproved ==
  [][\A r \in Resources :
       (resources[r].status = "approved" /\ r \notin adminTouched')
         => resources'[r].status = "approved"]_vars

----------------------------------------------------------------------------
(* Properties of error handling *)

\* C11 (scoring failure never rejects a vote): a POST that found no existing
\* vote and met no uniqueness violation never ends in an error response; in
\* particular a failure of the recomputation that follows the insert does not
\* undo the insert or fail the request.
C11_ScoringFailureNeverRejects ==
  \A p \in Procs : outcome[p] # "err_create_failed"

\* C12 (missing configuration): when one of the scorer's three configuration
\* keys is absent, a call of the Quality Scorer does not return a result, and
\* no verdict to auto-approve is returned.
C12_MissingKeyIsAnError ==
  \A p \in Procs :
    (\E k \in ConfigKeys : ~HasKey(config, k))
      => /\ outcome[p] # "summary"
         /\ loc[p].score.should_auto_approve # "true"

----------------------------------------------------------------------------
(* The Recommendation Selector: GET /api/discover                          *)
(*                                                                         *)
(* The resources table carries the columns the selector reads.  Relevance  *)
(* and random scores are kept in thousandths (quality_score and            *)
(* trending_score stay in tenths).  All user_interactions rows are younger *)
(* than 30 days.  A missing estimated_time_minutes is NullTime.            *)

MaxDiscoveries == 1

DiscoverResources == {"d1", "d2", "d3", "d4"}
NullTime == -1

\* content columns of the resources the selector is run on
Catalogue ==
  [d \in DiscoverResources |->
     IF d = "d1" THEN [category |-> "books", tags |-> {"deep"},
                       difficulty_level |-> "beginner",
                       estimated_time_minutes |-> 30, quality_score |-> 30,
                       trending_score |-> 0, created_at |-> 1]
     ELSE IF d = "d2" THEN [category |-> "books", tags |-> {},
                            difficulty_level |-> "advanced",
                            estimated_time_minutes |-> 90, quality_score |-> 20,
                            trending_score |-> 10, created_at |-> 2]
     ELSE IF d = "d3" THEN [category |-> "videos", tags |-> {"deep"},
                            difficulty_level |-> "null",
                            estimated_time_minutes |-> NullTime,
                            quality_score |-> 19, trending_score |-> 0,
                            created_at |-> 3]
     ELSE [category |-> "articles", tags |-> {},
           difficulty_level |-> "intermediate",
           estimated_time_minutes |-> 20, quality_score |-> -2,
           trending_score |-> 0, created_at |-> 4]]

\* the caller of GET /api/discover: a signed-in user, or nobody
Anonymous == "anon"
Callers == {"u1", Anonymous}

Algorithms == {"personalized", "popular", "recent", "random"}

\* exclude_ids as sent: resource ids and a token that is no UUID
ExcludeLists == {{}, {"d1"}, {"d4", "not-a-uuid"}, {"d1", "d2", "d3"}}

NoFilters == [category |-> "none", difficulty |-> "none", max_time |-> 0]
FilterSets ==
  {NoFilters, [NoFilters EXCEPT !.category = "articles"],
   [NoFilters EXCEPT !.max_time = 30]}
Limits == {1, 2}

\* user_preferences rows the signed-in user may have (none, the signup
\* defaults, explicit preferences, an excluded category)
PreferenceRows ==
  {[user_id |-> "u1", preferred_categories |-> pref, excluded_categories |-> ex,
    max_time_minutes |-> 60] :
     pref \in {{}, {"articles"}}, ex \in {{}}} \cup
  {[user_id |-> "u1", preferred_categories |-> {},
    excluded_categories |-> {"books"}, max_time_minutes |-> 60]}
PreferenceTables == {{}} \cup {{row} : row \in PreferenceRows}

\* the signed-in user's history: nothing, a view, or a view of an up-voted one
Histories ==
  {[views |-> {}, ups |-> {}], [views |-> {"d1"}, ups |-> {}],
   [views |-> {"d1"}, ups |-> {"d1"}]}

\* statuses of the catalogue's resources
StatusMaps ==
  {[d \in DiscoverResources |->
      IF d = "d1" THEN a ELSE IF d = "d3" THEN b ELSE "approved"] :
     a \in {"approved", "hidden"}, b \in {"approved", "pending"}}

\* server behaviours for get_personalized_recommendations
ServerModes ==
  {[srf |-> "rejected", conflict |-> "error"]} \cup
  {[srf |-> "evaluated", conflict |-> m] : m \in ConflictModes}

NoDiscoverReq ==
  [kind |-> "none", algorithm |-> "popular", user |-> Anonymous,
   exclude_ids |-> {}, filters |-> NoFilters, limit |-> 1,
   exclude_viewed |-> TRUE]
NoDiscoverLoc ==
  [recs |-> <<>>, data |-> <<>>, algorithm_used |-> "none",
   personalized |-> "not_run"]

\* all orders of the elements of S
RECURSIVE PermSeqs(_)
PermSeqs(S) ==
  IF S = {} THEN {<<>>}
  ELSE UNION {{<<x>> \o t : t \in PermSeqs(S \ {x})} : x \in S}

\* ORDER BY key DESC LIMIT k over the rows S: every order the ties allow
TopK(S, key, k) ==
  {SubSeq(t, 1, Min(k, Len(t))) :
     t \in {q \in PermSeqs(S) :
              \A i \in 1..Len(q), j \in 1..Len(q) :
                i < j => key[q[i]] >= key[q[j]]}}

\* faulty variant: the exclusions are dropped
ParseExcludeIds_None(tokens) == {}

\* excludeIds: the tokens of exclude_ids that match /^[0-9a-f-]{36}$/i
\* (resource ids are UUIDs; the other token of the model is not)
ParseExcludeIds(tokens) == {t \in tokens : t \in DiscoverResources}

\* the optional category, difficulty and max_time filters of a query
PassesFilters(row, f) ==
  /\ f.category = "none" \/ row.category = f.category
  /\ f.difficulty = "none" \/ row.difficulty_level = f.difficulty
  /\ f.max_time = 0 \/ ( /\ row.estimated_time_minutes # NullTime
                        /\ row.estimated_time_minutes <= f.max_time )

\* CASE difficulty_level WHEN 'beginner' THEN 1 ... ELSE 2
DifficultyTier(level) ==
  IF level = "beginner" THEN 1
  ELSE IF level = "intermediate" THEN 2
  ELSE IF level = "advanced" THEN 3
  ELSE 2

\* user_profile: the rows of user_interactions joined with resources and the
\* user's up votes, and what is aggregated from them
ProfileRows(res, vts, inter, u) ==
  {i \in inter :
     /\ i.user_id = u
     /\ i.interaction_type \in {"view", "favorite"}
     /\ i.resource_id \in DOMAIN res
     /\ \E v \in vts : /\ v.resource_id = i.resource_id
                       /\ v.user_id = u /\ v.vote_type = "up"}

user_profile(res, vts, inter, u) ==
  LET rows == ProfileRows(res, vts, inter, u)
      n == Cardinality(rows)
      tiers == SumOver(rows, [i \in rows |->
                 DifficultyTier(res[i.resource_id].difficulty_level)])
  IN [liked_categories |-> {res[i.resource_id].category : i \in rows},
      liked_tags |-> UNION {res[i.resource_id].tags : i \in rows},
      \* ROUND(COALESCE(AVG(...), 2))
      rounded_difficulty |-> IF n = 0 THEN 2 ELSE (2 * tiers + n) \div (2 * n)]

\* get_personalized_recommendations: relevance_score of one resource row for
\* a profile and a user_preferences row up (thousandths)
RelevanceScore(row, profile, up) ==
  (IF up.preferred_categories # {} /\ row.category \in up.preferred_categories
     THEN 1250
   ELSE IF row.category \in profile.liked_categories THEN 750
   ELSE 0)
  + 100 * Cardinality(row.tags \cap profile.liked_tags)
  + 25 * row.quality_score
  + 15 * row.trending_score
  + (IF row.estimated_time_minutes = NullTime THEN 50
     ELSE IF row.estimated_time_minutes <= up.max_time_minutes THEN 200
     ELSE 0)
  + (IF row.difficulty_level = "null" THEN 25
     ELSE IF DifficultyTier(row.difficulty_level) = profile.rounded_difficulty
       THEN 50
     ELSE 0)

\* r.id NOT IN (SELECT resource_id FROM user_interactions WHERE user_id = ...
\* AND interaction_type = 'view'): resource_id inside the subquery is also the
\* name of an output column of the function; read as the variable it is NULL
NotViewed(inter, u, d, mode) ==
  LET viewRows == {i \in inter : i.user_id = u /\ i.interaction_type = "view"}
  IN IF mode = "use_variable" THEN viewRows = {}
     ELSE \A i \in viewRows : i.resource_id # d

\* the call of get_personalized_recommendations ends in an error
PersonalizedRaises(srf, mode) == srf = "rejected" \/ mode = "error"

\* get_personalized_recommendations(target_user_id, limit_count,
\* exclude_viewed): the lists of (resource_id, relevance_score) it may return
get_personalized_recommendations(res, vts, inter, prefs, u, limit_count, exclude_viewed, mode) ==
  LET profile == user_profile(res, vts, inter, u)
      mine == {up \in prefs : up.user_id = u}
      eligible(up) ==
        {d \in DOMAIN res :
           /\ res[d].status = "approved"
           /\ ( up.excluded_categories = {}
                \/ res[d].category \notin up.excluded_categories )
           /\ ~exclude_viewed \/ NotViewed(inter, u, d, mode)}
      pairs ==
        UNION {{[resource_id |-> d,
                 relevance_score |-> RelevanceScore(res[d], profile, up)] :
                  d \in eligible(up)} : up \in mine}
  IN TopK(pairs, [x \in pairs |-> x.relevance_score], limit_count)

\* getPersonalizedRecommendations, second query: the recommended resources
\* that are approved, pass the filters and are not excluded, sorted by
\* relevance_score, at most limit of them
PersonalizedPage(res, recs, excludeIds, f, limit) ==
  LET ids == {recs[i].resource_id : i \in 1..Len(recs)}
      kept == {d \in ids \cap DOMAIN res :
                 /\ res[d].status = "approved"
                 /\ PassesFilters(res[d], f)
                 /\ d \notin excludeIds}
      score == [d \in kept |->
                  LET i == CHOOSE k \in 1..Len(recs) : recs[k].resource_id = d
                  IN recs[i].relevance_score]
  IN TopK(kept, score, limit)

\* getPopularContent: approved, filters, exclusions, quality_score
\* descending, limit
getPopularContent(res, excludeIds, f, limit) ==
  LET kept == {d \in DOMAIN res :
                 /\ res[d].status = "approved"
                 /\ PassesFilters(res[d], f)
                 /\ d \notin excludeIds}
  IN TopK(kept, [d \in kept |-> res[d].quality_score], limit)

\* getRecentContent: approved, quality_score >= 0, filters, exclusions,
\* created_at descending, limit
getRecentContent(res, excludeIds, f, limit) ==
  LET kept == {d \in DOMAIN res :
                 /\ res[d].status = "approved"
                 /\ res[d].quality_score >= 0
                 /\ PassesFilters(res[d], f)
                 /\ d \notin excludeIds}
  IN TopK(kept, [d \in kept |-> res[d].created_at], limit)

\* values of RANDOM() * 2.0 * 0.1 the model draws (thousandths, below 200)
RandomDraws == {0, 100, 190}

\* get_random_stumble_content(limit_count, exclude_ids): the id lists it may
\* return; random_score = quality_score * 0.7 + trending_score * 0.2 + draw
get_random_stumble_content(res, limit_count, exclude_ids) ==
  LET kept == {d \in DOMAIN res :
                 /\ res[d].status = "approved"
                 /\ exclude_ids = {} \/ d \notin exclude_ids}
  IN UNION {TopK(kept,
                 [d \in kept |-> 70 * res[d].quality_score
                                 + 20 * res[d].trending_score + draw[d]],
                 limit_count) : draw \in [kept -> RandomDraws]}

\* getRandomContent, second query: the drawn resources that pass the
\* filters, shuffled, at most limit of them
RandomPage(res, ids, f, limit) ==
  LET kept == {d \in ids \cap DOMAIN res : PassesFilters(res[d], f)}
  IN {SubSeq(t, 1, Min(limit, Len(t))) : t \in PermSeqs(kept)}

\* the elements of a list
Range(t) == {t[i] : i \in 1..Len(t)}

\* tables the selector is run on
InitDiscover ==
  \E st \in StatusMaps, prefs \in PreferenceTables, h \in Histories,
     m \in ServerModes :
    /\ resources =
         [d \in DiscoverResources |->
            [status |-> st[d],
             category |-> Catalogue[d].category,
             tags |-> Catalogue[d].tags,
             difficulty_level |-> Catalogue[d].difficulty_level,
             estimated_time_minutes |-> Catalogue[d].estimated_time_minutes,
             quality_score |-> Catalogue[d].quality_score,
             trending_score |-> Catalogue[d].trending_score,
             created_at |-> Catalogue[d].created_at]]
    /\ votes = {[id |-> 1, resource_id |-> d, user_id |-> "u1",
                 vote_type |-> "up", weight |-> VoteWeight(0)] : d \in h.ups}
    /\ nextId = 2
    /\ user_interactions =
         {[id |-> 1, user_id |-> "u1", resource_id |-> d,
           interaction_type |-> "view"] : d \in h.views}
    /\ user_preferences = prefs
    /\ srf_in_aggregate = m.srf
    /\ variable_conflict = m.conflict
    /\ users = [u \in Users |->
                 [reputation_score |-> 0, total_upvotes |-> 0,
                  total_downvotes |-> 0]]
    /\ config = CHOOSE c \in Configs : c.min_votes_for_auto_action = 1
    /\ weekly_rewards = {}
    /\ reward_distributions = {}
    /\ pc = [p \in Procs |-> "idle"]
    /\ req = [p \in Procs |-> NoDiscoverReq]
    /\ loc = [p \in Procs |-> NoDiscoverLoc]
    /\ outcome = [p \in Procs |-> "none"]
    /\ hist = [u \in Users |-> [r \in Resources |-> <<>>]]
    /\ overlapped = [p \in Procs |-> FALSE]
    /\ adminTouched = {}
    /\ started = 0
    /\ adminCount = 0

\* what GET /api/discover leaves alone
discoverFrame ==
  <<votes, nextId, users, resources, user_interactions, config,
    variable_conflict, hist, overlapped, adminTouched, adminCount,
    user_preferences, weekly_rewards, reward_distributions, srf_in_aggregate>>

\* NextResponse.json({data: resources, algorithm_used, ...})
DiscoverReturn(p, page, note) ==
  /\ loc' = [loc EXCEPT ![p].data = page,
                        ![p].personalized =
                           IF note = "same" THEN @ ELSE note]
  /\ pc' = [pc EXCEPT ![p] = "done"]
  /\ outcome' = [outcome EXCEPT ![p] = "discovered"]

\* "Fall back to popular if no personalized results"
DiscoverFallBack(p) ==
  /\ loc' = [loc EXCEPT ![p].algorithm_used = "popular",
                        ![p].personalized = "empty"]
  /\ pc' = [pc EXCEPT ![p] = "popular"]
  /\ UNCHANGED outcome

\* GET /api/discover: the query is parsed and the strategy chosen
DiscoverArrive(p) ==
  \E alg \in Algorithms, caller \in Callers, ex \in ExcludeLists,
     f \in FilterSets, limit \in Limits, ev \in BOOLEAN :
    /\ ~InFlight(p)
    /\ started' = started + 1
    /\ req' = [req EXCEPT ![p] =
                 [kind |-> "discover", algorithm |-> alg, user |-> caller,
                  exclude_ids |-> ex, filters |-> f, limit |-> limit,
                  exclude_viewed |-> ev]]
    /\ loc' = [loc EXCEPT ![p] = [NoDiscoverLoc EXCEPT !.algorithm_used = alg]]
    /\ pc' = [pc EXCEPT ![p] =
                IF alg = "personalized" /\ caller # Anonymous
                  THEN "personalizedRpc"
                ELSE IF alg = "popular" THEN "popular"
                ELSE IF alg = "recent" THEN "recent"
                ELSE "randomRpc"]
    /\ outcome' = [outcome EXCEPT ![p] = "none"]
    /\ UNCHANGED discoverFrame

\* getPersonalizedRecommendations: rpc('get_personalized_recommendations')
PersonalizedRpc(p) ==
  /\ pc[p] = "personalizedRpc"
  /\ \E recs \in
        IF PersonalizedRaises(srf_in_aggregate, variable_conflict)
        THEN {<<>>}
        ELSE get_personalized_recommendations(
               resources, votes, user_interactions, user_preferences,
               req[p].user, req[p].limit * 2, req[p].exclude_viewed,
               variable_conflict) :
       IF recs = <<>>
       THEN DiscoverFallBack(p)
       ELSE /\ loc' = [loc EXCEPT ![p].recs = recs]
            /\ pc' = [pc EXCEPT ![p] = "personalizedFetch"]
            /\ UNCHANGED outcome
  /\ UNCHANGED <<req, started>>
  /\ UNCHANGED discoverFrame

\* getPersonalizedRecommendations: the resources query, merge, sort, slice
PersonalizedFetch(p) ==
  /\ pc[p] = "personalizedFetch"
  /\ \E page \in PersonalizedPage(resources, loc[p].recs,
                                  ParseExcludeIds(req[p].exclude_ids),
                                  req[p].filters, req[p].limit) :
       IF page = <<>>
       THEN DiscoverFallBack(p)
       ELSE DiscoverReturn(p, page, "nonempty")
  /\ UNCHANGED <<req, started>>
  /\ UNCHANGED discoverFrame

\* getPopularContent, called directly or as the fallback
PopularQuery(p) ==
  /\ pc[p] = "popular"
  /\ \E page \in getPopularContent(resources,
                                   ParseExcludeIds(req[p].exclude_ids),
                                   req[p].filters, req[p].limit) :
       DiscoverReturn(p, page, "same")
  /\ UNCHANGED <<req, started>>
  /\ UNCHANGED discoverFrame

\* getRecentContent
RecentQuery(p) ==
  /\ pc[p] = "recent"
  /\ \E page \in getRecentContent(resources,
                                  ParseExcludeIds(req[p].exclude_ids),
                                  req[p].filters, req[p].limit) :
       DiscoverReturn(p, page, "same")
  /\ UNCHANGED <<req, started>>
  /\ UNCHANGED discoverFrame

\* getRandomContent ("Random or fallback"): rpc('get_random_stumble_content')
RandomRpc(p) ==
  /\ pc[p] = "randomRpc"
  /\ \E ids \in get_random_stumble_content(
                  resources, req[p].limit * 3,
                  ParseExcludeIds(req[p].exclude_ids)) :
       IF ids = <<>>
       THEN /\ loc' = [loc EXCEPT ![p].algorithm_used = "random",
                                  ![p].data = <<>>]
            /\ pc' = [pc EXCEPT ![p] = "done"]
            /\ outcome' = [outcome EXCEPT ![p] = "discovered"]
       ELSE /\ loc' = [loc EXCEPT ![p].algorithm_used = "random",
                                  ![p].recs = ids]
            /\ pc' = [pc EXCEPT ![p] = "randomFetch"]
            /\ UNCHANGED outcome
  /\ UNCHANGED <<req, started>>
  /\ UNCHANGED discoverFrame

\* getRandomContent: the resources query, shuffle, slice
RandomFetch(p) ==
  /\ pc[p] = "randomFetch"
  /\ \E page \in RandomPage(resources, Range(loc[p].recs), req[p].filters,
                            req[p].limit) :
       DiscoverReturn(p, page, "same")
  /\ UNCHANGED <<req, started>>
  /\ UNCHANGED discoverFrame

NextDiscover ==
  \/ \E p \in Procs : started < MaxDiscoveries /\ DiscoverArrive(p)
  \/ \E p \in Procs : PersonalizedRpc(p)
  \/ \E p \in Procs : PersonalizedFetch(p)
  \/ \E p \in Procs : PopularQuery(p)
  \/ \E p \in Procs : RecentQuery(p)
  \/ \E p \in Procs : RandomRpc(p)
  \/ \E p \in Procs : RandomFetch(p)

SpecDiscover == InitDiscover /\ [][NextDiscover]_vars

----------------------------------------------------------------------------
(* Properties of the Recommendation Selector *)

\* C13 (exclusions honoured): whatever strategy served the request, no
\* resource whose id is in the request's exclude_ids is in the returned list.
C13_ExcludedNeverReturned ==
  \A p \in Procs :
    outcome[p] = "discovered"
      => Range(loc[p].data) \cap req[p].exclude_ids = {}

\* C13 witness: a non-empty list was returned to a request that excluded an
\* approved resource which passes the request's filters
C13_Witness ==
  \E p \in Procs :
    /\ outcome[p] = "discovered"
    /\ loc[p].data # <<>>
    /\ \E d \in req[p].exclude_ids \cap DiscoverResources :
         /\ resources[d].status = "approved"
         /\ PassesFilters(resources[d], req[p].filters)

\* C14 (personalized fallback): a finished request with
\* algorithm=personalized whose personalized strategy yielded nothing reports
\* algorithm_used=popular, and a personalized request returns an empty list
\* only if the popular strategy with the same filters and exclusions returns
\* an empty list.
C14_PersonalizedFallsBack ==
  \A p \in Procs :
    (outcome[p] = "discovered" /\ req[p].algorithm = "personalized")
      => /\ loc[p].personalized = "empty" => loc[p].algorithm_used = "popular"
         /\ loc[p].data = <<>>
              => getPopularContent(resources,
                                   ParseExcludeIds(req[p].exclude_ids),
                                   req[p].filters, req[p].limit) = {<<>>}

\* the user has no votes and no interactions
ZeroHistory(u) ==
  /\ \A v \in votes : v.user_id # u
  /\ \A i \in user_interactions : i.user_id # u

----------------------------------------------------------------------------
(* The Reward Distributor: calculate_weekly_rewards(week_start_date)       *)
(*                                                                         *)
(* Time is counted in tenths of a day from the first week's start.  Token  *)
(* amounts of weekly_rewards and reward_distributions are kept in units of *)
(* 0.00001 token, so that every product of the function is exact;          *)
(* submission_amount is in whole tokens.                                   *)

MaxRewardRuns == 2

\* week_end_date + INTERVAL '1 day' - week_start_date
WindowLength == 70
\* week_start_date values the function is called with
RewardWeeks == {0, 70}

\* resources 1..11 are created in the first week; 12 has quality_score 0;
\* 13 is created in the second week; 14 is created at the instant the second
\* week starts
RewardResources == 1..14
FirstWeek == 1..11

\* the numbers of approved resources among 1..11 and of paid submissions
ApprovedCounts == {0, 3, 10, 11}
PaidCounts == {0, 4, 11}

\* system_config as far as the distributor reads it
RewardConfigs ==
  {[weekly_distribution_percentage |-> 80],
   [weekly_distribution_percentage |-> 50],
   [auto_approve_threshold |-> 100]}

\* resource 14: an approved, paid submission when edge, else pending, unpaid
EdgeRow(edge) ==
  [created_at |-> WindowLength,
   status |-> IF edge THEN "approved" ELSE "pending",
   quality_score |-> 35,
   submission_amount |-> 1000,
   submission_tx_hash |-> IF edge THEN "0xpaid" ELSE "null",
   submitted_by |-> "u1"]

RewardRow(i, approved, paid) ==
  [created_at |-> IF i = 13 THEN 75 ELSE 5 * i,
   status |-> IF i \in FirstWeek /\ i > approved THEN "pending" ELSE "approved",
   quality_score |-> IF i = 12 THEN 0 ELSE 10 * (((i * 5) % 12) \div 2 + 1),
   submission_amount |-> 1000,
   submission_tx_hash |-> IF i > 11 - paid /\ i \in FirstWeek
                          THEN "0xpaid" ELSE "null",
   submitted_by |-> IF i % 2 = 0 THEN "u1" ELSE "u2"]

\* created_at >= week_start_date AND created_at <= week_end_date + 1 day
InWindow(row, week_start_date) ==
  /\ row.created_at >= week_start_date
  /\ row.created_at <= week_start_date + WindowLength

\* faulty variant: unpaid submissions are counted too
TotalPool_Unpaid(res, cfg, week_start_date) ==
  LET all == {i \in DOMAIN res : InWindow(res[i], week_start_date)}
  IN SumOver(all, [i \in all |-> res[i].submission_amount])
       * cfg.weekly_distribution_percentage * 1000

\* COALESCE(SUM(submission_amount), 0) * (distribution_percentage / 100)
TotalPool(res, cfg, week_start_date) ==
  LET paid == {i \in DOMAIN res :
                 /\ InWindow(res[i], week_start_date)
                 /\ res[i].submission_tx_hash # "null"}
  IN SumOver(paid, [i \in paid |-> res[i].submission_amount])
       * cfg.weekly_distribution_percentage * 1000

\* ranked_content before LIMIT: in-window, approved, quality_score > 0
Eligible(res, week_start_date) ==
  {i \in DOMAIN res :
     /\ InWindow(res[i], week_start_date)
     /\ res[i].status = "approved"
     /\ res[i].quality_score > 0}

\* ROW_NUMBER() OVER (ORDER BY quality_score DESC, created_at ASC)
RowNumber(res, S, i) ==
  1 + Cardinality({j \in S :
        \/ res[j].quality_score > res[i].quality_score
        \/ /\ res[j].quality_score = res[i].quality_score
           /\ res[j].created_at < res[i].created_at})

\* faulty variant: ranks 6 to 10 get 4% each
RankShare_Four(rank) ==
  IF rank = 1 THEN 300 ELSE IF rank = 2 THEN 200 ELSE IF rank = 3 THEN 150
  ELSE IF rank = 4 THEN 100 ELSE IF rank = 5 THEN 80 ELSE 40

\* CASE rank WHEN 1 THEN 0.30 ... ELSE 0.034, in thousandths of the pool
RankShare(rank) ==
  IF rank = 1 THEN 300 ELSE IF rank = 2 THEN 200 ELSE IF rank = 3 THEN 150
  ELSE IF rank = 4 THEN 100 ELSE IF rank = 5 THEN 80 ELSE 34

\* the reward_distributions rows one run inserts (LIMIT 10 keeps the first
\* ten rows the window function emits)
RewardRows(res, reward_id, total_pool, week_start_date) ==
  LET S == Eligible(res, week_start_date)
  IN {[weekly_reward_id |-> reward_id,
       user_id |-> res[i].submitted_by,
       resource_id |-> i,
       \* total_pool is a multiple of 1000 units: the quotient is exact
       amount |-> (total_pool \div 1000) * RankShare(RowNumber(res, S, i)),
       rank |-> RowNumber(res, S, i),
       quality_score |-> res[i].quality_score] :
        i \in {j \in S : RowNumber(res, S, j) <= 10}}

InitRewards ==
  \E approved \in ApprovedCounts, paid \in PaidCounts, cfg \in RewardConfigs,
     edge \in BOOLEAN :
    /\ resources = [i \in RewardResources |->
                     IF i = 14 THEN EdgeRow(edge)
                     ELSE RewardRow(i, approved, paid)]
    /\ config = cfg
    /\ weekly_rewards = {}
    /\ reward_distributions = {}
    /\ votes = {}
    /\ nextId = 1
    /\ users = [u \in Users |->
                 [reputation_score |-> 0, total_upvotes |-> 0,
                  total_downvotes |-> 0]]
    /\ user_interactions = {}
    /\ user_preferences = {}
    /\ srf_in_aggregate = "rejected"
    /\ variable_conflict = "error"
    /\ pc = [p \in Procs |-> "idle"]
    /\ req = [p \in Procs |-> NoReq]
    /\ loc = [p \in Procs |-> [reward_id |-> 0, week_start |-> 0]]
    /\ outcome = [p \in Procs |-> "none"]
    /\ hist = [u \in Users |-> [r \in Resources |-> <<>>]]
    /\ overlapped = [p \in Procs |-> FALSE]
    /\ adminTouched = {}
    /\ started = 0
    /\ adminCount = 0

\* calculate_weekly_rewards(week_start_date), called from session p
calculate_weekly_rewards(p, week_start_date) ==
  /\ started' = started + 1
  /\ IF ~HasKey(config, "weekly_distribution_percentage")
     THEN \* total_pool is NULL: the INSERT violates NOT NULL, nothing is kept
          /\ outcome' = [outcome EXCEPT ![p] = "reward_error"]
          /\ loc' = [loc EXCEPT ![p] = [reward_id |-> 0,
                                        week_start |-> week_start_date]]
          /\ UNCHANGED <<weekly_rewards, reward_distributions>>
     ELSE LET reward_id == Cardinality(weekly_rewards) + 1
              total_pool == TotalPool(resources, config, week_start_date)
          IN /\ weekly_rewards' = weekly_rewards \cup
                  {[id |-> reward_id,
                    week_start |-> week_start_date,
                    week_end |-> week_start_date + WindowLength - 10,
                    total_pool_amount |-> total_pool,
                    calculation_completed_at |-> "now"]}
             /\ reward_distributions' = reward_distributions \cup
                  RewardRows(resources, reward_id, total_pool, week_start_date)
             /\ outcome' = [outcome EXCEPT ![p] = "reward_computed"]
             /\ loc' = [loc EXCEPT ![p] = [reward_id |-> reward_id,
                                           week_start |-> week_start_date]]
  /\ UNCHANGED <<votes, nextId, users, resources, user_interactions,
                 user_preferences, srf_in_aggregate, config, variable_conflict,
                 pc, req, hist, overlapped, adminTouched, adminCount>>

NextRewards ==
  \E p \in Procs, w \in RewardWeeks :
    started < MaxRewardRuns /\ calculate_weekly_rewards(p, w)

SpecRewards == InitRewards /\ [][NextRewards]_vars

----------------------------------------------------------------------------
(* Properties of the Reward Distributor *)

\* the reward_distributions rows of the weekly_rewards row w
DistributionsOf(w) == {d \in reward_distributions : d.weekly_reward_id = w.id}

\* C16 (dedup by week): however often compute-weekly-rewards has run for a
\* week_start, at most one weekly_rewards row exists for it and at most ten
\* reward_distributions rows belong to that week.
C16_OneRewardPerWeek ==
  \A ws \in RewardWeeks :
    LET rows == {w \in weekly_rewards : w.week_start = ws}
    IN /\ Cardinality(rows) <= 1
       /\ Cardinality(UNION {DistributionsOf(w) : w \in rows}) <= 10

\* rank-to-share table of the contract, in thousandths of the pool
ContractShares == <<300, 200, 150, 100, 80, 34, 34, 34, 34, 34>>

\* C17 (allocation sums to the pool): a run over a week with at least ten
\* eligible resources writes exactly one row for each of the ranks 1..10,
\* with amounts 30%, 20%, 15%, 10%, 8% and five times 3.4% of the pool, and
\* the amounts add up to the pool.
C17_AllocationSumsToPool ==
  \A w \in weekly_rewards :
    Cardinality(Eligible(resources, w.week_start)) >= 10
      => LET D == DistributionsOf(w)
         IN /\ Cardinality(D) = 10
            /\ \A k \in 1..10 :
                 \E d \in D :
                   /\ d.rank = k
                   /\ d.amount = (w.total_pool_amount \div 1000) * ContractShares[k]
            /\ SumOver(D, [d \in D |-> d.amount]) = w.total_pool_amount

\* C17 witness: a run over a week with eleven eligible resources and a
\* positive pool
C17_Witness ==
  \E w \in weekly_rewards :
    /\ Cardinality(Eligible(resources, w.week_start)) = 11
    /\ w.total_pool_amount > 0
    /\ DistributionsOf(w) # {}

\* sessions whose last call was for week_start ws
CalledFor(ws) ==
  {p \in Procs : outcome[p] \in {"reward_computed", "reward_error"}
                 /\ loc[p].week_start = ws}

----------------------------------------------------------------------------
(* Resource submission: POST /api/resources.  In this specification the    *)
(* table resources is the sequence of its rows in insertion order, a row   *)
(* carrying url, submitted_by, submission_amount and submission_tx_hash;   *)
(* users rows carry total_submissions.  Every awaited call is one step.    *)

MaxSubmissions == 3

\* urls of request bodies that pass ResourceSubmissionSchema
Urls == {"https://a.example", "https://b.example"}
\* submission_tx_hash of the body: absent, well formed, malformed
TxHashes == {"null", "0xgood", "0xshort"}
Submitters == {"u1", "u2", Anonymous}

NoSubmitReq == [kind |-> "none", user |-> "u1", url |-> "https://a.example",
                submission_tx_hash |-> "null"]

\* txHash.match(/^0x[a-fA-F0-9]{64}$/), then "return true"
verifySubmissionTransaction(txHash) == txHash = "0xgood"

\* .from('resources').select('id').eq('url', url).single(): the row when
\* exactly one matches, no data otherwise
ExistingResource(res, url) ==
  LET hits == {i \in DOMAIN res : res[i].url = url}
  IN IF Cardinality(hits) = 1 THEN hits ELSE {}

InitSubmit ==
  \E seeded \in {<<>>, <<[url |-> "https://a.example", submitted_by |-> "u3",
                          submission_amount |-> 1000,
                          submission_tx_hash |-> "null"]>>} :
    /\ resources = seeded
    /\ users = [u \in Users |-> [total_submissions |-> 0]]
    /\ votes = {}
    /\ nextId = 1
    /\ user_interactions = {}
    /\ user_preferences = {}
    /\ weekly_rewards = {}
    /\ reward_distributions = {}
    /\ srf_in_aggregate = "rejected"
    /\ variable_conflict = "error"
    /\ config = CHOOSE c \in Configs : c.min_votes_for_auto_action = 1
    /\ pc = [p \in Procs |-> "idle"]
    /\ req = [p \in Procs |-> NoSubmitReq]
    /\ loc = [p \in Procs |-> [newResource |-> 0]]
    /\ outcome = [p \in Procs |-> "none"]
    /\ hist = [u \in Users |-> [r \in Resources |-> <<>>]]
    /\ overlapped = [p \in Procs |-> FALSE]
    /\ adminTouched = {}
    /\ started = 0
    /\ adminCount = 0

\* what POST /api/resources leaves alone
submitFrame ==
  <<votes, nextId, user_interactions, config, variable_conflict, hist,
    overlapped, adminTouched, adminCount, user_preferences, weekly_rewards,
    reward_distributions, srf_in_aggregate>>

\* NextResponse.json(..., {status})
SubmitReturn(p, status) ==
  /\ outcome' = [outcome EXCEPT ![p] = status]
  /\ pc' = [pc EXCEPT ![p] = "idle"]

\* request.json(), ResourceSubmissionSchema.parse, supabase.auth.getUser()
SubmitArrive(p) ==
  \E u \in Submitters, url \in Urls, tx \in TxHashes :
    /\ ~InFlight(p)
    /\ started < MaxSubmissions
    /\ started' = started + 1
    /\ req' = [req EXCEPT ![p] = [kind |-> "submit", user |-> u, url |-> url,
                                  submission_tx_hash |-> tx]]
    /\ loc' = [loc EXCEPT ![p] = [newResource |-> 0]]
    /\ IF u = Anonymous
       THEN SubmitReturn(p, "401")
       ELSE /\ pc' = [pc EXCEPT ![p] = "checkUrl"]
            /\ outcome' = [outcome EXCEPT ![p] = "none"]
    /\ UNCHANGED <<resources, users>>
    /\ UNCHANGED submitFrame

\* "Check if URL already exists"
SubmitCheckUrl(p) ==
  /\ pc[p] = "checkUrl"
  /\ IF ExistingResource(resources, req[p].url) # {}
     THEN SubmitReturn(p, "409")
     ELSE IF req[p].submission_tx_hash = "null"
     THEN pc' = [pc EXCEPT ![p] = "insert"] /\ UNCHANGED outcome
     ELSE IF verifySubmissionTransaction(req[p].submission_tx_hash)
     THEN pc' = [pc EXCEPT ![p] = "insert"] /\ UNCHANGED outcome
     ELSE SubmitReturn(p, "400")
  /\ UNCHANGED <<resources, users, req, loc, started>>
  /\ UNCHANGED submitFrame

\* "Create resource": the table has no constraint the INSERT could violate
SubmitInsert(p) ==
  /\ pc[p] = "insert"
  /\ resources' = Append(resources,
                         [url |-> req[p].url,
                          submitted_by |-> req[p].user,
                          submission_amount |-> 1000,
                          submission_tx_hash |-> req[p].submission_tx_hash])
  /\ loc' = [loc EXCEPT ![p] = [newResource |-> Len(resources) + 1]]
  /\ pc' = [pc EXCEPT ![p] = "countSubmission"]
  /\ UNCHANGED <<users, req, outcome, started>>
  /\ UNCHANGED submitFrame

\* "Update user submission count"
SubmitCount(p) ==
  /\ pc[p] = "countSubmission"
  /\ users' = [users EXCEPT ![req[p].user].total_submissions = @ + 1]
  /\ pc' = [pc EXCEPT ![p] = "track"]
  /\ UNCHANGED <<resources, req, loc, outcome, started>>
  /\ UNCHANGED submitFrame

\* "Track analytics event", then status 201
SubmitTrack(p) ==
  /\ pc[p] = "track"
  /\ SubmitReturn(p, "201")
  /\ UNCHANGED <<resources, users, req, loc, started>>
  /\ UNCHANGED submitFrame

NextSubmit ==
  \E p \in Procs :
    \/ SubmitArrive(p)
    \/ SubmitCheckUrl(p)
    \/ SubmitInsert(p)
    \/ SubmitCount(p)
    \/ SubmitTrack(p)

SpecSubmit == InitSubmit /\ [][NextSubmit]_vars

\* C19 (url is globally unique): in every reachable state no two rows of
\* resources have the same url, also when two submissions of one url are
\* processed at the same time.
C19_UrlGloballyUnique ==
  \A i, j \in DOMAIN resources :
    resources[i].url = resources[j].url => i = j

----------------------------------------------------------------------------
(* Vote requests served one after the other *)

\* a vote request arrives only while no handler is at work
NextSequential ==
  \/ \E p \in Procs :
       /\ started < MaxRequests
       /\ \A q \in Procs : ~InFlight(q)
       /\ Arrive(p)
  \/ \E p \in Procs : Handle(p)

SpecSequential == Init /\ [][NextSequential]_vars

\* responses of a vote create, update or delete that went through
VoteMutations == {"created", "updated", "removed", "deleted"}

\* upvotes, downvotes and quality_score of r agree with votes and users
ScoresAgree(r) ==
  /\ resources[r].upvotes =
       Cardinality({v \in votes : v.resource_id = r /\ v.vote_type = "up"})
  /\ resources[r].downvotes =
       Cardinality({v \in votes : v.resource_id = r /\ v.vote_type = "down"})
  /\ resources[r].quality_score = ContractScore(r)

----------------------------------------------------------------------------
(* Two racing vote requests, then requests served one after the other *)

\* the first two requests may overlap; every later one arrives only while
\* no handler is at work
NextRace ==
  \/ \E p \in Procs :
       /\ started < MaxRequests
       /\ started < 2 \/ \A q \in Procs : ~InFlight(q)
       /\ Arrive(p)
  \/ \E p \in Procs : Handle(p)

SpecRace == Init /\ [][NextRace]_vars

----------------------------------------------------------------------------
(* Properties of the reputation recomputation *)

\* the stored reputation of u is the formula's value on the tables
ReputationCurrent(u) ==
  users[u].reputation_score =
    ReputationFormula(resources, votes, user_interactions, u)

\* C22 (reputation follows votes and content): when a vote create, update or
\* delete by voter V on a resource submitted by S returns, having run on its
\* own, the stored reputation_score of V and that of S both equal the
\* reputation formula evaluated on the tables as they are then.
C22_ReputationsCurrent ==
  [][\A p \in Procs :
       ( /\ InFlight(p)
         /\ pc'[p] = "done"
         /\ outcome'[p] \in VoteMutations )
         => /\ ReputationCurrent(req[p].user)'
            /\ ReputationCurrent(submitted_by[req[p].resource])']_vars


----------------------------------------------------------------------------
(* update_user_reputation called on its own: SELECT update_user_reputation(u) *)
(* from session p, over tables drawn from the sets below.  Vote rows of this *)
(* specification name the voted resource by a number.                       *)

MaxRecomputes == 2

\* quality_score of the one submission of u3, in tenths
QualitySeeds == {-30, 0, 11, 100, 120}
\* numbers of vote rows and of user_interactions rows of each target user
VoteCounts == {0, 3, 101}
InteractionCounts == {0, 5, 501}
\* users.reputation_score before the call
StoredReputations == {0, 7}
ReputationTargets == {"u1", "u3"}

InitReputation ==
  \E q \in QualitySeeds, st \in {"pending", "hidden"}, nv \in VoteCounts,
     ni \in InteractionCounts, rep \in StoredReputations :
    /\ resources = [r \in Resources |->
                     [status |-> st, upvotes |-> 0, downvotes |-> 0,
                      quality_score |-> q]]
    /\ votes = {[id |-> i, resource_id |-> i, user_id |-> u,
                 vote_type |-> "up", weight |-> 10] :
                  i \in 1..nv, u \in ReputationTargets}
    /\ nextId = nv + 1
    /\ user_interactions =
         {[id |-> i, user_id |-> u, resource_id |-> "r1",
           interaction_type |-> "view"] : i \in 1..ni, u \in ReputationTargets}
    /\ users = [u \in Users |->
                 [reputation_score |-> rep, total_upvotes |-> 0,
                  total_downvotes |-> 0]]
    /\ variable_conflict \in ConflictModes
    /\ config = CHOOSE c \in Configs : c.min_votes_for_auto_action = 1
    /\ user_preferences = {}
    /\ weekly_rewards = {}
    /\ reward_distributions = {}
    /\ srf_in_aggregate = "rejected"
    /\ pc = [p \in Procs |-> "idle"]
    /\ req = [p \in Procs |-> NoReq]
    /\ loc = [p \in Procs |-> [target |-> "u1", before |-> 0, calls |-> 0]]
    /\ outcome = [p \in Procs |-> "none"]
    /\ hist = [u \in Users |-> [r \in Resources |-> <<>>]]
    /\ overlapped = [p \in Procs |-> FALSE]
    /\ adminTouched = {}
    /\ started = 0
    /\ adminCount = 0

\* SELECT update_user_reputation(u) from session p
RecomputeReputation(p, u) ==
  /\ started < MaxRecomputes
  /\ started' = started + 1
  /\ loc' = [loc EXCEPT ![p] =
               [target |-> u, before |-> users[u].reputation_score,
                calls |-> IF loc[p].target = u /\ outcome[p] # "none"
                          THEN loc[p].calls + 1 ELSE 1]]
  /\ IF TriggerRaises(variable_conflict)
     THEN /\ outcome' = [outcome EXCEPT ![p] = "reputation_error"]
          /\ UNCHANGED users
     ELSE /\ outcome' = [outcome EXCEPT ![p] = "reputation_done"]
          /\ users' = update_user_reputation(users, resources, votes,
                                             user_interactions, u,
                                             variable_conflict)
  /\ UNCHANGED <<votes, nextId, resources, user_interactions, config,
                 variable_conflict, pc, req, hist, overlapped, adminTouched,
                 adminCount>>
  /\ UNCHANGED restOfDatabase

NextReputation == \E p \in Procs, u \in ReputationTargets : RecomputeReputation(p, u)

SpecReputation == InitReputation /\ [][NextReputation]_vars

\* the reputation formula as the contract states it, in tenths of a point
\* before rounding
ContractReputation(u) ==
  LET own == {r \in Resources :
                /\ submitted_by[r] = u
                /\ resources[r].status \in {"approved", "pending"}}
      capped(x, cap) == IF x <= cap THEN x ELSE cap
      content_points ==
        SumOver(own, [r \in own |-> capped(resources[r].quality_score * 5, 500)])
      voting_points ==
        10 * capped(Cardinality({v \in votes : v.user_id = u}), 100)
      engagement_points ==
        capped(Cardinality({i \in user_interactions : i.user_id = u}), 500)
      total == content_points + voting_points + engagement_points
  IN IF total >= 0 THEN (total + 5) \div 10 ELSE -((5 - total) \div 10)

\* C23 (reputation formula): after update_user_reputation has been called
\* for a user, once or twice in a row on unchanged tables, the user's stored
\* reputation_score is round(content_points + voting_points +
\* engagement_points) with content_points the sum over the user's approved or
\* pending resources of min(quality_score*5, 50), voting_points
\* min(votes cast, 100) and engagement_points min(0.1 * interactions, 50).
C23_ReputationFormula ==
  \A p \in Procs :
    outcome[p] \in {"reputation_done", "reputation_error"}
      => users[loc[p].target].reputation_score = ContractReputation(loc[p].target)


----------------------------------------------------------------------------
(* Trending/Ranking Calculator: update_trending_scores(), run from session  *)
(* p at time NOW() = now.  Times are in days; quality_score is in tenths    *)
(* and trending_score in hundredths, so that every product is exact.        *)
(* resources rows carry status, quality_score, trending_score, created_at;  *)
(* votes and user_interactions rows carry created_at.                       *)

MaxTrendingRuns == 2

TrendResources == {"t1", "t2", "t3"}
\* NOW() of a run
TrendTimes == {100, 101}
\* created_at of the resources: 2 (then 3) days, 40 days and 20 days old
TrendCreated == [r \in TrendResources |->
                   IF r = "t1" THEN 98 ELSE IF r = "t2" THEN 60 ELSE 80]
\* trending_score before the first run
TrendSeed == 7

TrendStatusMaps ==
  {[t1 |-> a, t2 |-> b, t3 |-> c] :
     a \in {"approved", "pending"}, b \in {"approved", "hidden"},
     c \in {"approved", "rejected"}}

TrendQualityMaps ==
  {[t1 |-> 30, t2 |-> -15, t3 |-> 0], [t1 |-> 0, t2 |-> 12, t3 |-> 25]}

\* contents of user_interactions: (id, resource, type, created_at)
TrendInteractionSets ==
  LET row(i, r, t, c) == [id |-> i, user_id |-> "u1", resource_id |-> r,
                          interaction_type |-> t, created_at |-> c]
  IN {{},
      {row(1, "t1", "view", 99), row(2, "t1", "view", 94),
       row(3, "t1", "favorite", 99), row(4, "t2", "view", 50)},
      {row(1, "t2", "view", 95), row(2, "t2", "view", 96),
       row(3, "t3", "view", 93), row(4, "t1", "view", 10)}}

\* contents of votes: (id, resource, user, created_at)
TrendVoteSets ==
  LET row(i, r, u, c) == [id |-> i, resource_id |-> r, user_id |-> u,
                          vote_type |-> "up", weight |-> 10, created_at |-> c]
  IN {{},
      {row(1, "t1", "u1", 99), row(2, "t1", "u2", 93), row(3, "t2", "u1", 97)},
      {row(1, "t3", "u1", 94), row(2, "t3", "u2", 99), row(3, "t1", "u4", 80)}}

\* faulty variant: the WHERE clause is missing
TrendingApplies_Always(status) == TRUE

\* WHERE status = 'approved'
TrendingApplies(status) == status = "approved"

\* the CASE on created_at, times 0.1, in hundredths
RecencyBonus(created_at, now) ==
  IF created_at > now - 3 THEN 50
  ELSE IF created_at > now - 7 THEN 20
  ELSE IF created_at > now - 30 THEN 10
  ELSE 0

\* the expression assigned to trending_score for the row r of res
TrendingScore(res, vts, inter, r, now) ==
  4 * res[r].quality_score
  + 30 * Cardinality({ui \in inter : /\ ui.resource_id = r
                                     /\ ui.interaction_type = "view"
                                     /\ ui.created_at > now - 7})
  + 20 * Cardinality({v \in vts : /\ v.resource_id = r
                                  /\ v.created_at > now - 7})
  + RecencyBonus(res[r].created_at, now)

InitTrending ==
  \E st \in TrendStatusMaps, q \in TrendQualityMaps,
     inter \in TrendInteractionSets, vts \in TrendVoteSets :
    /\ resources = [r \in TrendResources |->
                     [status |-> st[r], quality_score |-> q[r],
                      trending_score |-> TrendSeed,
                      created_at |-> TrendCreated[r]]]
    /\ votes = vts
    /\ nextId = 4
    /\ user_interactions = inter
    /\ users = [u \in Users |->
                 [reputation_score |-> 0, total_upvotes |-> 0,
                  total_downvotes |-> 0]]
    /\ variable_conflict = "error"
    /\ config = CHOOSE c \in Configs : c.min_votes_for_auto_action = 1
    /\ user_preferences = {}
    /\ weekly_rewards = {}
    /\ reward_distributions = {}
    /\ srf_in_aggregate = "rejected"
    /\ pc = [p \in Procs |-> "idle"]
    /\ req = [p \in Procs |-> NoReq]
    /\ loc = [p \in Procs |-> [now |-> 0, run |-> 0]]
    /\ outcome = [p \in Procs |-> "none"]
    /\ hist = [u \in Users |-> [r \in Resources |-> <<>>]]
    /\ overlapped = [p \in Procs |-> FALSE]
    /\ adminTouched = {}
    /\ started = 0
    /\ adminCount = 0

\* update_trending_scores() from session p at time now; loc keeps the time
\* and the number of the run
update_trending_scores(p, now) ==
  /\ started < MaxTrendingRuns
  /\ started' = started + 1
  /\ resources' =
       [r \in TrendResources |->
          IF TrendingApplies(resources[r].status)
          THEN [resources[r] EXCEPT !.trending_score =
                  TrendingScore(resources, votes, user_interactions, r, now)]
          ELSE resources[r]]
  /\ loc' = [loc EXCEPT ![p] = [now |-> now, run |-> started + 1]]
  /\ outcome' = [outcome EXCEPT ![p] = "trending_updated"]
  /\ UNCHANGED <<votes, nextId, users, user_interactions, config,
                 variable_conflict, pc, req, hist, overlapped, adminTouched,
                 adminCount>>
  /\ UNCHANGED restOfDatabase

NextTrending == \E p \in Procs, now \in TrendTimes : update_trending_scores(p, now)

SpecTrending == InitTrending /\ [][NextTrending]_vars

\* the trending score the contract states, in hundredths, from the tables of
\* the current state at time now
ContractTrending(r, now) ==
  LET views == {ui \in user_interactions :
                  /\ ui.resource_id = r /\ ui.interaction_type = "view"
                  /\ now - ui.created_at < 7}
      recent == {v \in votes : v.resource_id = r /\ now - v.created_at < 7}
      age == now - resources[r].created_at
      bonus == IF age < 3 THEN 50 ELSE IF age < 7 THEN 20
               ELSE IF age < 30 THEN 10 ELSE 0
  IN 4 * resources[r].quality_score + 30 * Cardinality(views)
       + 20 * Cardinality(recent) + bonus

----------------------------------------------------------------------------
(* Properties of reward eligibility and of the week boundaries *)

\* resources created within [week_start, week_end], a week being the seven
\* days from week_start up to, not including, the next week's start
CreatedInWeek(ws) ==
  {i \in RewardResources :
     resources[i].created_at >= ws /\ resources[i].created_at < ws + 70}

\* j is ranked before i: higher quality_score, or equal and created earlier
RankedBefore(j, i) ==
  \/ resources[j].quality_score > resources[i].quality_score
  \/ /\ resources[j].quality_score = resources[i].quality_score
     /\ resources[j].created_at < resources[i].created_at

\* the rows D are ranks 1..min(10, |E|) given to the best resources of E
RanksTheBestOf(D, E) ==
  /\ Cardinality(D) = (IF Cardinality(E) < 10 THEN Cardinality(E) ELSE 10)
  /\ {d.rank : d \in D} = 1..Cardinality(D)
  /\ \A d \in D :
       /\ d.resource_id \in E
       /\ d.rank = 1 + Cardinality({j \in E : RankedBefore(j, d.resource_id)})

\* C25 (eligibility and ranking): the reward_distributions rows of a run are
\* the up to ten best resources among those created within [week_start,
\* week_end], approved, with quality_score > 0, by quality_score descending
\* and earlier creation first, with the distinct ranks 1..n.
C25_RanksTheBestEligible ==
  \A w \in weekly_rewards :
    RanksTheBestOf(DistributionsOf(w),
                   {i \in CreatedInWeek(w.week_start) :
                      /\ resources[i].status = "approved"
                      /\ resources[i].quality_score > 0})

\* C27 (each resource is rewarded in one week): for runs over two different
\* weeks, no resource has reward_distributions rows in both, and the two
\* pools together do not exceed the configured percentage of all paid
\* submissions, i.e. no submission_amount is counted in both.
C27_RewardedInOneWeek ==
  \A w1, w2 \in weekly_rewards :
    w1.week_start # w2.week_start
      => /\ {d.resource_id : d \in DistributionsOf(w1)}
              \cap {d.resource_id : d \in DistributionsOf(w2)} = {}
         /\ LET paid == {i \in RewardResources :
                           resources[i].submission_tx_hash # "null"}
            IN w1.total_pool_amount + w2.total_pool_amount
                 <= SumOver(paid, [i \in paid |-> resources[i].submission_amount])
                      * config.weekly_distribution_percentage * 1000


----------------------------------------------------------------------------
(* Properties of vote weights *)

\* C26 (vote direction is never inverted): every user's reputation_score is
\* at least 0, and hence every up vote adds at least 1.0 to the weighted
\* score of its resource and every down vote takes at least 1.0 from it.
C26_VoteDirectionKept ==
  /\ \A u \in Users : users[u].reputation_score >= 0
  /\ \A v \in votes :
       /\ v.vote_type = "up" => ScorerContribution(v, users) >= 10
       /\ v.vote_type = "down" => ScorerContribution(v, users) <= -10


----------------------------------------------------------------------------
(* Properties of the users' vote counters *)

\* C28 (vote counters track the votes table): whenever no vote request is
\* being served, each user's total_upvotes is the number of that user's up
\* vote rows and total_downvotes the number of their down vote rows.
C28_CountersTrackVotes ==
  (\A p \in Procs : ~InFlight(p))
    => \A u \in Users :
         /\ users[u].total_upvotes =
              Cardinality({v \in votes : v.user_id = u /\ v.vote_type = "up"})
         /\ users[u].total_downvotes =
              Cardinality({v \in votes : v.user_id = u /\ v.vote_type = "down"})


----------------------------------------------------------------------------
(* GET /api/discover interleaved with admin moderation of the catalogue *)

\* every resource of the catalogue starts approved; the signed-in user has
\* viewed and up-voted one of them
InitDiscoverModerated ==
  /\ InitDiscover
  /\ \A d \in DiscoverResources : resources[d].status = "approved"
  /\ votes # {}

\* the resources of the catalogue the admin requests of the model are about
ModeratedResources == {"d1", "d4"}

\* one admin moderation request on a resource of the catalogue
ModerateCatalogue ==
  \/ \E r \in ModeratedResources, s \in ModerationStatuses : AdminPatch(r, s)
  \/ \E r \in ModeratedResources : AdminDelete(r)

NextDiscoverModerated ==
  \/ NextDiscover
  \/ adminCount < MaxAdminActions /\ ModerateCatalogue

SpecDiscoverModerated == InitDiscoverModerated /\ [][NextDiscoverModerated]_vars

\* C29 (only approved content is served): every resource in the list a
\* discovery request returns has status approved when the response is built,
\* also when the status was changed between the strategy's selection of ids
\* and its query for the rows.
C29_OnlyApprovedServed ==
  [][\A p \in Procs :
       (InFlight(p) /\ pc'[p] = "done" /\ outcome'[p] = "discovered")
         => \A d \in Range(loc'[p].data) : resources'[d].status = "approved"]_vars


\* C30 (the stored weight is the applied weight): in every state the
\* weighted_score the Quality Scorer computes for a resource is the sum of
\* the weights stored on its up vote rows minus the sum of the weights stored
\* on its down vote rows.
C30_StoredWeightsApplied ==
  \A r \in Resources :
    LET rows == {v \in votes : v.resource_id = r}
    IN calculate_quality_score(votes, users, config, r).weighted_score =
         SumOver(rows, [v \in rows |->
                          IF v.vote_type = "up" THEN v.weight ELSE -v.weight])

====
